---- MODULE Spec2Model ----
(***************************************************************************)
(* A model of xcube_sh/geodb.py: the local, file backed GeoDB service, the *)
(* remote PostGIS backed GeoDB service and the query translation between   *)
(* them.  Python strings are TLA+ strings, a Python Optional is a sequence *)
(* of length at most one (None is the empty sequence), a Python list or    *)
(* tuple is a sequence, and an ordered dict is a sequence of key/value     *)
(* pairs.  The outcome of a call is a record [exc, val]: exc is "" when    *)
(* the call returned val and the exception's class name when it raised.    *)
(***************************************************************************)
EXTENDS Integers, Sequences, FiniteSets, TLC

VARIABLES
    geodb,        \* local backend: the .geojson files, name -> features
    tables,       \* remote database: names of the tables of schema public
    rows,         \* remote database: table name -> stored rows, in order
    txn,          \* remote connection: "idle" or "open" transaction
    collections,  \* RemoteGeoPostgreSQLService._collections
    sql,          \* RemoteGeoPostgreSQLService._sql
    issued,       \* statements the last call executed on the connection
    call,         \* the last call and its arguments
    ret           \* the outcome of the last call

vars == <<geodb, tables, rows, txn, collections, sql, issued, call, ret>>

(***************************************************************************)
(* Bounds of the model.                                                    *)
(***************************************************************************)
\* features in a local collection file
MaxFeatures == 3
\* rows in the remote database, and features in one add_features call
MaxRows == 2
\* bounding box coordinates range over 0..MaxCoord
MaxCoord == 1
\* max_records ranges over -2..MaxRecords
MaxRecords == 2

(***************************************************************************)
(* Python values.                                                          *)
(***************************************************************************)
None == <<>>
Some(v) == <<v>>

Ok(v) == [exc |-> "", val |-> v]
Raise(e, msg) == [exc |-> e, val |-> msg]

\* str(n) of an int, as an f-string formats it
PyStr(n) == ToString(n)

\* bool(s) of an Optional[str]: None and '' are falsy
Truthy(s) == s # None /\ s[1] # ""

\* sub in s, for two strings.  The search goes through the start positions
\* i..stop and skips a window that ends in a character sub does not have;
\* the positions are searched in blocks of 32.
RECURSIVE ContainsFrom(_, _, _, _, _)
ContainsFrom(s, sub, chars, i, stop) ==
    LET last == i + Len(sub) - 1
    IN  IF i > stop THEN FALSE
        ELSE IF SubSeq(s, last, last) \notin chars THEN ContainsFrom(s, sub, chars, last + 1, stop)
        ELSE IF SubSeq(s, i, last) = sub THEN TRUE
        ELSE ContainsFrom(s, sub, chars, i + 1, stop)

Contains(s, sub) ==
    LET chars == {SubSeq(sub, j, j) : j \in 1..Len(sub)}
        starts == Len(s) - Len(sub) + 1
    IN  \/ Len(sub) = 0
        \/ \E b \in 0..((starts - 1) \div 32) :
               ContainsFrom(s, sub, chars, 32 * b + 1,
                            IF 32 * (b + 1) < starts THEN 32 * (b + 1) ELSE starts)

(***************************************************************************)
(* RemoteGeoPostgreSQLService._alter_query                                 *)
(***************************************************************************)
\* the WKT literal of line 275
BBoxLiteral(bbox, srid) ==
    LET minx == PyStr(bbox[1])
        miny == PyStr(bbox[2])
        maxx == PyStr(bbox[3])
        maxy == PyStr(bbox[4])
        srid_str == IF srid # None THEN "SRID=" \o PyStr(srid[1]) \o ";" ELSE ""
    IN  " " \o srid_str \o "POLYGON((" \o minx \o " " \o miny \o "," \o minx \o " " \o maxy
            \o "," \o maxx \o " " \o maxy \o "," \o maxx \o " " \o miny
            \o "," \o minx \o " " \o miny \o "))" \o "::geometry"

\* lines 284-302: the combination of the query and the bbox predicate
CombineQuery(query, bbox_query, fmt) ==
    IF ~Truthy(query) /\ bbox_query = None THEN Ok("TRUE")
    ELSE IF Truthy(query) /\ bbox_query = None THEN
        IF fmt = "geojson" THEN Ok("properties->>" \o query[1])
        ELSE IF fmt = "geopandas" THEN Ok(query[1])
        ELSE Raise("ValueError", "format " \o fmt \o " not known")
    ELSE IF ~Truthy(query) /\ bbox_query # None THEN Ok(bbox_query[1])
    ELSE
        IF fmt = "geojson" THEN Ok("properties->>" \o query[1] \o " and " \o bbox_query[1])
        ELSE IF fmt = "geopandas" THEN Ok(query[1] \o " and " \o bbox_query[1])
        ELSE Raise("ValueError", "format " \o fmt \o " not known")

\* _alter_query with ST_Within for the mode contains as well
_alter_query_swapped(query, bbox, bbox_mode, fmt, srid) ==
    IF bbox = <<>> THEN CombineQuery(query, None, fmt)
    ELSE IF Len(bbox) < 4 THEN Raise("IndexError", "tuple index out of range")
    ELSE IF bbox_mode = "contains" THEN
        CombineQuery(query, Some(" ST_Within('" \o BBoxLiteral(bbox, srid) \o "', geometry)"), fmt)
    ELSE IF bbox_mode = "within" THEN
        CombineQuery(query, Some(" ST_Within('" \o BBoxLiteral(bbox, srid) \o "', geometry)"), fmt)
    ELSE Raise("ValueError", "bbox_mode " \o bbox_mode \o " unknown")

_alter_query(query, bbox, bbox_mode, fmt, srid) ==
    IF bbox = <<>> THEN CombineQuery(query, None, fmt)
    ELSE IF Len(bbox) < 4 THEN Raise("IndexError", "tuple index out of range")
    ELSE IF bbox_mode = "contains" THEN
        CombineQuery(query, Some(" ST_Contains('" \o BBoxLiteral(bbox, srid) \o "', geometry)"), fmt)
    ELSE IF bbox_mode = "within" THEN
        CombineQuery(query, Some(" ST_Within('" \o BBoxLiteral(bbox, srid) \o "', geometry)"), fmt)
    ELSE Raise("ValueError", "bbox_mode " \o bbox_mode \o " unknown")

(***************************************************************************)
(* Input sets.                                                             *)
(***************************************************************************)
Coords == 0..MaxCoord
BBoxes == {<<>>} \cup {<<a, b, c, d>> : a \in Coords, b \in Coords, c \in {MaxCoord}, d \in Coords}
         \cup {<<0, 0>>}
BBoxModes == {"contains", "within", "intersects"}
Formats == {"geojson", "geopandas", "csv"}
Srids == {None, Some(4326), Some(3857)}
SqlQueries == {None, Some(""), Some("'height' > '1'"), Some("name = 'a'")}

(***************************************************************************)
(* LocalGeoDBService                                                       *)
(***************************************************************************)
\* compile(query, 'query', 'eval') on the expressions of the model: the code
\* object is the expression's syntax tree
Compile(query) ==
    IF query = None THEN Raise("TypeError", "compile() arg 1 must be a string, bytes or AST object")
    ELSE IF query[1] = "True" THEN Ok([node |-> "Constant", value |-> TRUE])
    ELSE IF query[1] = "id == 1" THEN Ok([node |-> "Compare", left |-> "id", op |-> "==", right |-> 1])
    ELSE IF query[1] = "height > 1" THEN Ok([node |-> "Compare", left |-> "height", op |-> ">", right |-> 1])
    ELSE IF query[1] = "height" THEN Ok([node |-> "Name", id |-> "height"])
    ELSE Raise("SyntaxError", "invalid syntax")

\* dict.update with an ordered dict given as key/value pairs
RECURSIVE DictUpdate(_, _, _)
DictUpdate(d, pairs, i) ==
    IF i > Len(pairs) THEN d
    ELSE LET k == pairs[i][1]
             v == pairs[i][2]
         IN  DictUpdate([x \in (DOMAIN d) \cup {k} |-> IF x = k THEN v ELSE d[x]], pairs, i + 1)

EmptyDict == [x \in {} |-> 0]

\* lines 127-128: the variables the expression is evaluated with
FeatureLocals(feature) ==
    LET id == feature.id
        _locals == IF id # None /\ id[1] # 0 THEN [x \in {"id"} |-> id[1]] ELSE EmptyDict
        properties == IF feature.properties # None THEN feature.properties[1] ELSE <<>>
    IN  DictUpdate(_locals, properties, 1)

\* the names of the model's expressions that eval(code, None, _locals) finds
\* outside _locals, in the builtins: id is the builtin function
BuiltinNames == {"id"}

\* bool(eval(compiled_query, None, _locals)), or the exception eval raises.
\* A name is looked up in _locals and then in the builtins; a builtin
\* function is truthy, equals no number and has no order with a number.
Eval(code, _locals) ==
    IF code.node = "Constant" THEN Ok(code.value)
    ELSE IF code.node = "Name" THEN
        IF code.id \in DOMAIN _locals THEN Ok(_locals[code.id] # 0)
        ELSE IF code.id \in BuiltinNames THEN Ok(TRUE)
        ELSE Raise("NameError", "name '" \o code.id \o "' is not defined")
    ELSE IF code.left \in DOMAIN _locals THEN
        IF code.op = "==" THEN Ok(_locals[code.left] = code.right)
        ELSE Ok(_locals[code.left] > code.right)
    ELSE IF code.left \in BuiltinNames THEN
        IF code.op = "==" THEN Ok(FALSE)
        ELSE Raise("TypeError", "'" \o code.op \o "' not supported between instances of "
                                \o "'builtin_function_or_method' and 'int'")
    ELSE Raise("NameError", "name '" \o code.left \o "' is not defined")

\* lines 126-131: an exception of the evaluation counts as False
FeatureResult(code, feature) ==
    LET r == Eval(code, FeatureLocals(feature))
    IN  IF r.exc # "" THEN FALSE ELSE r.val

\* lines 124-135: the loop over the collection, from feature i on
RECURSIVE ScanCollection(_, _, _, _, _)
ScanCollection(collection, i, code, max_records, result_set) ==
    IF i > Len(collection) THEN result_set
    ELSE IF FeatureResult(code, collection[i]) THEN
        LET appended == Append(result_set, collection[i])
        IN  IF Len(appended) >= max_records THEN appended
            ELSE ScanCollection(collection, i + 1, code, max_records, appended)
    ELSE ScanCollection(collection, i + 1, code, max_records, result_set)

\* LocalGeoDBService._get_collection
_get_collection(collection_name) ==
    IF collection_name \in DOMAIN geodb THEN Ok(geodb[collection_name])
    ELSE Raise("FileNotFoundError", "Could not find file " \o collection_name \o ".geojson")

\* LocalGeoDBService.find_features
LocalFindFeatures(collection_name, query, max_records, fmt, bbox, bbox_mode, bbox_crs) ==
    IF bbox # <<>> THEN Raise("NotImplementedError", "bbox feature not implemented for driver local")
    ELSE LET compiled_query == Compile(query)
             collection == _get_collection(collection_name)
         IN  IF compiled_query.exc # "" THEN compiled_query
             ELSE IF collection.exc # "" THEN collection
             ELSE Ok(ScanCollection(collection.val, 1, compiled_query.val, max_records, <<>>))

\* LocalGeoDBService.find_feature
LocalFindFeature(collection_name, query, fmt, bbox, bbox_mode, bbox_crs) ==
    LET features == LocalFindFeatures(collection_name, query, 1, fmt, bbox, bbox_mode, bbox_crs)
    IN  IF features.exc # "" THEN features
        ELSE IF features.val # <<>> THEN Ok(Some(features.val[1]))
        ELSE Ok(None)

(***************************************************************************)
(* Python string and JSON helpers used by the remote backend.              *)
(***************************************************************************)
UpperCase == "ABCDEFGHIJKLMNOPQRSTUVWXYZ"
LowerCase == "abcdefghijklmnopqrstuvwxyz"

LowerTable ==
    [c \in {SubSeq(UpperCase, i, i) : i \in 1..Len(UpperCase)} |->
        LET i == CHOOSE j \in 1..Len(UpperCase) : SubSeq(UpperCase, j, j) = c
        IN  SubSeq(LowerCase, i, i)]

LowerChar(c) == IF c \in DOMAIN LowerTable THEN LowerTable[c] ELSE c

\* str.lower()
RECURSIVE PyLower(_)
PyLower(s) ==
    IF Len(s) = 0 THEN ""
    ELSE LowerChar(SubSeq(s, 1, 1)) \o PyLower(SubSeq(s, 2, Len(s)))

\* sep.join(parts)
RECURSIVE PyJoin(_, _)
PyJoin(sep, parts) ==
    IF Len(parts) = 0 THEN ""
    ELSE IF Len(parts) = 1 THEN parts[1]
    ELSE parts[1] \o sep \o PyJoin(sep, Tail(parts))

\* s.split(sep) for a separator of one character, scanning from position i
\* with the current part starting at position start
RECURSIVE PySplitFrom(_, _, _, _)
PySplitFrom(s, sep, start, i) ==
    IF i > Len(s) THEN <<SubSeq(s, start, Len(s))>>
    ELSE IF SubSeq(s, i, i) = sep
         THEN <<SubSeq(s, start, i - 1)>> \o PySplitFrom(s, sep, i + 1, i + 1)
         ELSE PySplitFrom(s, sep, start, i + 1)

PySplit(s, sep) == PySplitFrom(s, sep, 1, 1)

\* Python values carry their type: [t |-> "str" | "int" | "bool" | "None" | "list", v |-> ...]
PyStrOf(v) == [t |-> "str", v |-> v]
PyIntOf(v) == [t |-> "int", v |-> v]
PyNone == [t |-> "None", v |-> 0]
PyListOf(v) == [t |-> "list", v |-> v]

\* str(v)
StrOfValue(v) ==
    IF v.t = "str" THEN v.v
    ELSE IF v.t = "int" THEN PyStr(v.v)
    ELSE IF v.t = "bool" THEN (IF v.v THEN "True" ELSE "False")
    ELSE "None"

\* json.dumps(v), for scalars, lists of scalars and dicts of those
JsonScalar(v) ==
    IF v.t = "str" THEN "\"" \o v.v \o "\""
    ELSE IF v.t = "int" THEN PyStr(v.v)
    ELSE IF v.t = "bool" THEN (IF v.v THEN "true" ELSE "false")
    ELSE "null"

JsonValue(v) ==
    IF v.t = "list" THEN "[" \o PyJoin(", ", [i \in 1..Len(v.v) |-> JsonScalar(v.v[i])]) \o "]"
    ELSE JsonScalar(v)

JsonDumps(d) ==
    "{" \o PyJoin(", ", [i \in 1..Len(d) |-> "\"" \o d[i][1] \o "\": " \o JsonValue(d[i][2])])
        \o "}"

\* key in d, d[key] for an ordered dict
HasKey(d, key) == \E i \in 1..Len(d) : d[i][1] = key
DictGet(d, key) == d[CHOOSE i \in 1..Len(d) : d[i][1] = key][2]

(***************************************************************************)
(* RemoteGeoPostgreSQLService: the SQL templates, lines 162-219.           *)
(***************************************************************************)
_FILTER_SQL(collection, query, max) ==
    "SELECT  json_build_object(\n"
    \o "        'type', 'Feature',\n"
    \o "\t    'properties', properties::json,\n"
    \o "        'geometry', ST_AsGeoJSON(geometry)::json\n"
    \o "        )\n"
    \o "        FROM \"" \o collection \o "\" \n"
    \o "        WHERE " \o query \o " " \o max

_FILTER_LONG_SQL(collection, query, max) ==
    "SELECT  *\n"
    \o "        FROM \"" \o collection \o "\" \n"
    \o "        WHERE " \o query \o " " \o max

_GET_TABLES_SQL ==
    "SELECT t.table_name\n"
    \o "        FROM information_schema.tables t\n"
    \o "        INNER JOIN information_schema.columns c on c.table_name = t.table_name \n"
    \o "                                        and c.table_schema = t.table_schema\n"
    \o "        WHERE c.column_name = 'properties'\n"
    \o "              AND t.table_schema not in ('information_schema', 'pg_catalog')\n"
    \o "              AND t.table_type = 'BASE TABLE'\n"
    \o "              \n"
    \o "        ORDER BY t.table_schema;"

_TABLE_EXISTS_SQL(collection) ==
    "SELECT EXISTS (\n"
    \o "            SELECT 1\n"
    \o "            FROM   information_schema.tables\n"
    \o "            WHERE  table_schema = 'public'\n"
    \o "            AND    table_name = '" \o collection \o "')"

_DROP_COLLECTION_SQL(collection) == "DROP TABLE " \o collection

_CREATE_COLLECTION_SQL(collection, columns) ==
    "            -- Table: public." \o collection \o "\n"
    \o "\n"
    \o "            -- DROP TABLE public." \o collection \o ";\n"
    \o "            \n"
    \o "            CREATE TABLE public." \o collection \o "\n"
    \o "            (\n"
    \o "                -- Inherited from table public.geodb_master: "
    \o "id integer NOT NULL DEFAULT nextval('geodb_seq1'::regclass),\n"
    \o "                -- Inherited from table public.geodb_master: properties json,\n"
    \o "                -- Inherited from table public.geodb_master: "
    \o "name character varying(512) COLLATE pg_catalog.\"default\",\n"
    \o "                -- Inherited from table public.geodb_master: "
    \o "geometry geometry,\n"
    \o "                -- Inherited from table public.geodb_master: "
    \o "type character varying COLLATE pg_catalog.\"default\" NOT NULL\n"
    \o "                " \o columns \o "\n"
    \o "            )\n"
    \o "                INHERITS (public.geodb_master)\n"
    \o "            WITH (\n"
    \o "                OIDS = FALSE\n"
    \o "            )\n"
    \o "            TABLESPACE pg_default;\n"
    \o "            \n"
    \o "            ALTER TABLE public." \o collection \o "\n"
    \o "                OWNER to postgres;\n"
    \o "            "

\* the INSERT statement of lines 381-391
InsertSql(collection_name, columns, properties, name, values, geometry) ==
    "INSERT INTO " \o collection_name \o "(" \o properties \o ", name, "
    \o columns \o ", geometry) VALUES('" \o properties \o "', '" \o name \o "', " \o values \o ", "
    \o "ST_GeomFromGeoJSON('" \o geometry \o ")')) "

(***************************************************************************)
(* The database behind the connection.  A session is the record            *)
(* [tables, rows, txn, issued, sql] of the variables of the same names; a  *)
(* statement carries its text and what the text means to the database.     *)
(***************************************************************************)
TableNames == {"roads", "sites"}
TableOrder == <<"roads", "sites">>

Session == [tables |-> tables, rows |-> rows, txn |-> txn, issued |-> <<>>, sql |-> sql]

Take(seq, n) == SubSeq(seq, 1, IF n < Len(seq) THEN n ELSE Len(seq))

\* the rows of a table that satisfy a WHERE clause: a clause that asks for
\* name = 'a' selects by name, every other clause of the model selects all
RECURSIVE SelectByName(_, _, _)
SelectByName(seq, name, i) ==
    IF i > Len(seq) THEN <<>>
    ELSE (IF seq[i].name = name THEN <<seq[i]>> ELSE <<>>) \o SelectByName(seq, name, i + 1)

SelectRows(seq, where) ==
    IF Contains(where, "name = 'a'") THEN SelectByName(seq, "a", 1) ELSE seq

RECURSIVE ListTables(_, _)
ListTables(T, i) ==
    IF i > Len(TableOrder) THEN <<>>
    ELSE (IF TableOrder[i] \in T THEN <<<<TableOrder[i]>>>> ELSE <<>>) \o ListTables(T, i + 1)

\* what the database answers to a statement: the rows, the row count and
\* the tables and rows after it
DbAnswer(S, stmt) ==
    IF stmt.kind = "EXISTS" THEN
        [exc |-> "", result |-> <<<<stmt.table \in S.tables>>>>, rowcount |-> 1,
         tables |-> S.tables, rows |-> S.rows]
    ELSE IF stmt.kind = "TABLES" THEN
        LET listed == ListTables(S.tables, 1)
        IN  [exc |-> "", result |-> listed, rowcount |-> Len(listed),
             tables |-> S.tables, rows |-> S.rows]
    ELSE IF stmt.kind = "FILTER" THEN
        LET matching == SelectRows(S.rows[stmt.table], stmt.where)
            limited == IF stmt.limit # None THEN Take(matching, stmt.limit[1]) ELSE matching
        IN  [exc |-> "", result |-> limited, rowcount |-> Len(limited),
             tables |-> S.tables, rows |-> S.rows]
    ELSE IF stmt.kind = "CREATE" THEN
        IF stmt.table \in S.tables
        THEN [exc |-> "DuplicateTable", result |-> <<>>, rowcount |-> 0 - 1,
              tables |-> S.tables, rows |-> S.rows]
        ELSE [exc |-> "", result |-> <<>>, rowcount |-> 0 - 1,
              tables |-> S.tables \cup {stmt.table}, rows |-> S.rows]
    ELSE IF stmt.kind = "DROP" THEN
        IF stmt.table \notin S.tables
        THEN [exc |-> "UndefinedTable", result |-> <<>>, rowcount |-> 0 - 1,
              tables |-> S.tables, rows |-> S.rows]
        ELSE [exc |-> "", result |-> <<>>, rowcount |-> 0 - 1,
              tables |-> S.tables \ {stmt.table},
              rows |-> [S.rows EXCEPT ![stmt.table] = <<>>]]
    ELSE \* INSERT
        IF stmt.table \notin S.tables
        THEN [exc |-> "UndefinedTable", result |-> <<>>, rowcount |-> 0 - 1,
              tables |-> S.tables, rows |-> S.rows]
        ELSE [exc |-> "", result |-> <<>>, rowcount |-> 1,
              tables |-> S.tables,
              rows |-> [S.rows EXCEPT ![stmt.table] = Append(@, stmt.row)]]

\* cursor.execute(sql): the statement reaches the database inside a transaction;
\* a is what the database answers
Executed(S, stmt, a) ==
    [exc |-> a.exc, result |-> a.result, rowcount |-> a.rowcount,
     S |-> [S EXCEPT !.tables = a.tables, !.rows = a.rows, !.txn = "open",
                     !.issued = Append(@, stmt)]]

Execute(S, stmt) == Executed(S, stmt, DbAnswer(S, stmt))

\* lines 411-421 of query, after the execute e: shape tells a single row
\* (fetchone) from a list of rows (fetchall) and from the flag of a statement
\* that is no SELECT, which is committed
Fetch(e, stmt) ==
    IF e.exc # "" THEN [exc |-> e.exc, val |-> stmt.kind, shape |-> "", S |-> e.S]
    ELSE IF Contains(stmt.text, "SELECT") THEN
        IF stmt.kind \notin {"EXISTS", "TABLES", "FILTER"}
        THEN [exc |-> "ProgrammingError", val |-> "no results to fetch", shape |-> "", S |-> e.S]
        ELSE IF e.rowcount = 1
        THEN [exc |-> "", val |-> e.result[1], shape |-> "row", S |-> e.S]
        ELSE [exc |-> "", val |-> e.result, shape |-> "rows", S |-> e.S]
    ELSE [exc |-> "", val |-> TRUE, shape |-> "flag",
          S |-> [e.S EXCEPT !.txn = "idle", !.issued = Append(@, [kind |-> "COMMIT"])]]

\* RemoteGeoPostgreSQLService.query
Query(S, stmt) == Fetch(Execute(S, stmt), stmt)

\* [r[0] for r in result]: a character of the name when the result is a
\* single row
FirstColumn(result) ==
    IF result.shape = "row"
    THEN [exc |-> "", S |-> result.S,
          val |-> [i \in 1..Len(result.val) |-> SubSeq(result.val[i], 1, 1)]]
    ELSE [exc |-> "", S |-> result.S,
          val |-> [i \in 1..Len(result.val) |-> result.val[i][1]]]

\* RemoteGeoPostgreSQLService._get_collections
_get_collections(S) == FirstColumn(Query(S, [kind |-> "TABLES", text |-> _GET_TABLES_SQL]))

\* _collection_exists answered from the cached collections list, with no query
_collection_exists_cached(S, collection_name) ==
    [exc |-> "", val |-> \E i \in 1..Len(collections) : collections[i] = collection_name,
     S |-> S]

\* result[0] of the single row the EXISTS statement yields
FirstField(result) == [exc |-> "", val |-> result.val[1], S |-> result.S]

\* RemoteGeoPostgreSQLService._collection_exists
_collection_exists(S, collection_name) ==
    FirstField(Query(S, [kind |-> "EXISTS", table |-> collection_name,
                         text |-> _TABLE_EXISTS_SQL(collection_name)]))

\* RemoteGeoPostgreSQLService._make_column
_make_column(name, typ) ==
    IF typ = "str" THEN Ok(name \o " character varying(256) COLLATE pg_catalog.\"default\"")
    ELSE IF Contains(typ, "int") THEN Ok(name \o " integer")
    ELSE IF Contains(typ, "float") THEN
        LET byColon == PySplit(typ, ":")
            _local == IF Len(byColon) = 2 THEN PySplit(byColon[2], ".") ELSE byColon
            prec_str == IF Len(_local) = 2 THEN "(" \o _local[1] \o "," \o _local[2] \o ")" ELSE ""
        IN  Ok(name \o " numeric" \o prec_str)
    ELSE Raise("NotImplementedError", "Column type " \o typ \o " not implemented")

(***************************************************************************)
(* RemoteGeoPostgreSQLService: the operations.  Each takes the session it  *)
(* starts in and yields [exc, val, S]: its outcome and the session after.  *)
(***************************************************************************)
\* lines 310-312: the LIMIT clause
LimitClause(max_records) ==
    IF max_records > 0 - 1 THEN "LIMIT " \o PyStr(max_records) ELSE ""

\* lines 317 and 325: the SELECT statement of a search
FilterStatement(collection_name, where, max_records, fmt) ==
    [kind |-> "FILTER", table |-> collection_name, where |-> where,
     limit |-> IF max_records > 0 - 1 THEN Some(max_records) ELSE None,
     text |-> IF fmt = "geojson"
              THEN _FILTER_SQL(collection_name, where, LimitClause(max_records))
              ELSE _FILTER_LONG_SQL(collection_name, where, LimitClause(max_records))]

\* lines 321-324 and 327-329: the rows e of the statement in the format fmt
FilterResult(e, fmt) ==
    IF fmt = "geojson"
    THEN [exc |-> "", S |-> e.S,
          val |-> [i \in 1..Len(e.result) |->
                      [type |-> "Feature", properties |-> e.result[i].properties,
                       geometry |-> e.result[i].geometry]]]
    ELSE [exc |-> "", S |-> e.S,
          val |-> IF Len(e.result) = 0 THEN [frame |-> <<[Message |-> "empty result"]>>]
                  ELSE [frame |-> e.result]]

\* lines 316-332: the statement stmt is remembered in _sql and executed
RunFilter(S, stmt, fmt) ==
    IF fmt \in {"geojson", "geopandas"}
    THEN FilterResult(Execute([S EXCEPT !.sql = Some(stmt.text)], stmt), fmt)
    ELSE [exc |-> "ValueError", val |-> "format " \o fmt \o " unknown", S |-> S]

\* lines 314-332, with the outcome altered of _alter_query
FindAltered(S, altered, collection_name, max_records, fmt) ==
    IF altered.exc # "" THEN [exc |-> altered.exc, val |-> altered.val, S |-> S]
    ELSE RunFilter(S, FilterStatement(collection_name, altered.val, max_records, fmt), fmt)

\* lines 307-332, with the outcome exists of _collection_exists
FindExisting(exists, collection_name, query, max_records, fmt, bbox, bbox_mode, bbox_crs) ==
    IF ~exists.val
    THEN [exc |-> "ValueError", val |-> "Collection " \o collection_name \o " not found",
          S |-> exists.S]
    ELSE FindAltered(exists.S, _alter_query(query, bbox, bbox_mode, fmt, Some(bbox_crs)),
                     collection_name, max_records, fmt)

\* RemoteGeoPostgreSQLService.find_features
RemoteFindFeatures(S, collection_name, query, max_records, fmt, bbox, bbox_mode, bbox_crs) ==
    FindExisting(_collection_exists(S, collection_name), collection_name, query, max_records,
                 fmt, bbox, bbox_mode, bbox_crs)

\* line 256: the first of the features, or None; the truth value of a data
\* frame is an error
FirstFeature(features, fmt) ==
    IF features.exc # "" THEN features
    ELSE IF fmt = "geopandas"
    THEN [exc |-> "ValueError", val |-> "The truth value of a DataFrame is ambiguous",
          S |-> features.S]
    ELSE IF features.val # <<>> THEN [exc |-> "", val |-> Some(features.val[1]), S |-> features.S]
    ELSE [exc |-> "", val |-> None, S |-> features.S]

\* RemoteGeoPostgreSQLService.find_feature: bbox_crs is not passed on
RemoteFindFeature(S, collection_name, query, fmt, bbox, bbox_mode, bbox_crs) ==
    FirstFeature(RemoteFindFeatures(S, collection_name, query, 1, fmt, bbox, bbox_mode, 4326),
                 fmt)

\* lines 338-340: one column declaration per schema property, or the first error
ConsColumn(col, rest) ==
    IF col.exc # "" THEN col
    ELSE IF rest.exc # "" THEN rest
    ELSE Ok(<<col.val>> \o rest.val)

RECURSIVE MakeColumns(_, _)
MakeColumns(properties, i) ==
    IF i > Len(properties) THEN Ok(<<>>)
    ELSE ConsColumn(_make_column(properties[i][1], properties[i][2]),
                    MakeColumns(properties, i + 1))

\* the outcome of an operation from the outcome r of its statement
Answer(r, val) ==
    IF r.exc # "" THEN [exc |-> r.exc, val |-> r.val, S |-> r.S]
    ELSE [exc |-> "", val |-> val, S |-> r.S]

\* lines 338-345, with the column declarations columns
CreateWith(S, collection_name, columns) ==
    IF columns.exc # "" THEN [exc |-> columns.exc, val |-> columns.val, S |-> S]
    ELSE Answer(Query(S, [kind |-> "CREATE", table |-> collection_name,
                          text |-> _CREATE_COLLECTION_SQL(collection_name,
                                                          PyJoin(",\n", columns.val))]),
                "Collection created")

\* lines 335-345, with the outcome exists of _collection_exists
CreateMissing(exists, collection_name, schema) ==
    IF exists.val
    THEN [exc |-> "ValueError", val |-> "Collection " \o collection_name \o " exists",
          S |-> exists.S]
    ELSE CreateWith(exists.S, collection_name, MakeColumns(schema.properties, 1))

\* RemoteGeoPostgreSQLService.new_collection
RemoteNewCollection(S, collection_name, schema) ==
    CreateMissing(_collection_exists(S, collection_name), collection_name, schema)

\* lines 348-352, with the outcome exists of _collection_exists
DropExisting(exists, collection_name) ==
    IF ~exists.val
    THEN [exc |-> "ValueError", val |-> "Collection " \o collection_name \o " does not exist",
          S |-> exists.S]
    ELSE Answer(Query(exists.S, [kind |-> "DROP", table |-> collection_name,
                                 text |-> _DROP_COLLECTION_SQL(collection_name)]),
                None)

\* RemoteGeoPostgreSQLService.drop_collection
RemoteDropCollection(S, collection_name) ==
    DropExisting(_collection_exists(S, collection_name), collection_name)

\* lines 366-374: the SQL literal of a property value
ValueLiteral(v) ==
    IF v.t \in {"int", "bool"} THEN StrOfValue(v)
    ELSE IF v.t = "None" THEN "null"
    ELSE "'" \o StrOfValue(v) \o "'"

\* lines 361-377: the column names and the value literals of a feature
ColumnList(properties) ==
    PyJoin(",", [i \in 1..Len(properties) |-> "\"" \o PyLower(properties[i][1]) \o "\""])

ValueList(properties) ==
    PyJoin(",", [i \in 1..Len(properties) |-> ValueLiteral(properties[i][2])])

\* lines 381-393: the INSERT of the feature f under the name name
InsertNamed(S, collection_name, f, name) ==
    Answer(Query(S, [kind |-> "INSERT", table |-> collection_name,
                     text |-> InsertSql(collection_name, ColumnList(f.properties),
                                        JsonDumps(f.properties), name,
                                        ValueList(f.properties), JsonDumps(f.geometry)),
                     row |-> [name |-> name, properties |-> f.properties,
                              geometry |-> f.geometry]]),
           TRUE)

\* the INSERT of one feature with the name read by properties.get('S_NAME')
InsertFeature_get(S, collection_name, f) ==
    InsertNamed(S, collection_name, f,
                IF HasKey(f.properties, "S_NAME")
                THEN StrOfValue(DictGet(f.properties, "S_NAME")) ELSE "None")

\* lines 361-393: the INSERT of one feature
InsertFeature(S, collection_name, f) ==
    IF ~HasKey(f.properties, "S_NAME") THEN [exc |-> "KeyError", val |-> "S_NAME", S |-> S]
    ELSE InsertNamed(S, collection_name, f, StrOfValue(DictGet(f.properties, "S_NAME")))

\* RemoteGeoPostgreSQLService.add_features, from feature i on, with the
\* outcome r of feature i - 1
RECURSIVE AddFeaturesFrom(_, _, _, _)
AddFeaturesFrom(r, collection_name, features, i) ==
    IF r.exc # "" THEN r
    ELSE IF i > Len(features) THEN [exc |-> "", val |-> "Features Added", S |-> r.S]
    ELSE AddFeaturesFrom(InsertFeature(r.S, collection_name, features[i]), collection_name,
                         features, i + 1)

RemoteAddFeatures(S, collection_name, features) ==
    AddFeaturesFrom([exc |-> "", val |-> TRUE, S |-> S], collection_name, features, 1)

\* RemoteGeoPostgreSQLService.add_feature
RemoteAddFeature(S, collection_name, feature) ==
    Answer(RemoteAddFeatures(S, collection_name, <<feature>>), "Feature Added")

(***************************************************************************)
(* The environment every specification starts from.                        *)
(***************************************************************************)
NoCall == [op |-> "init"]

\* a direct call of the query translator
AlterQuery ==
    \E query \in SqlQueries, bbox \in BBoxes, bbox_mode \in BBoxModes,
       fmt \in Formats, srid \in Srids :
        /\ call' = [op |-> "_alter_query", query |-> query, bbox |-> bbox,
                    bbox_mode |-> bbox_mode, fmt |-> fmt, srid |-> srid]
        /\ ret' = _alter_query(query, bbox, bbox_mode, fmt, srid)
        /\ UNCHANGED <<geodb, tables, rows, txn, collections, sql, issued>>

InitTranslate ==
    /\ geodb = <<>>
    /\ tables = {}
    /\ rows = <<>>
    /\ txn = "open"
    /\ collections = <<>>
    /\ sql = None
    /\ issued = <<>>
    /\ call = NoCall
    /\ ret = Ok(None)

NextTranslate == AlterQuery

SpecTranslate == InitTranslate /\ [][NextTranslate]_vars

(***************************************************************************)
(* The local backend: its files and its calls.                             *)
(***************************************************************************)
LocalIds == {None, Some(0), Some(1)}
LocalProperties == {None, Some(<<<<"height", 0>>>>), Some(<<<<"height", 2>>>>)}
LocalFeatures == [id : LocalIds, properties : LocalProperties]
LocalQueries == {None, Some("id =="), Some("True"), Some("id == 1"), Some("height > 1"),
                 Some("height")}
LocalNames == {"parks", "lakes"}
LocalBBoxes == {<<>>, <<0, 0, 1, 1>>}
RecordLimits == (0 - 2)..MaxRecords

RECURSIVE SeqsUpTo(_, _)
SeqsUpTo(S, n) ==
    IF n = 0 THEN {<<>>}
    ELSE LET shorter == SeqsUpTo(S, n - 1)
         IN  shorter \cup {Append(s, x) : s \in shorter, x \in S}

LocalFindFeaturesCall ==
    \E collection_name \in LocalNames, query \in LocalQueries, max_records \in RecordLimits,
       bbox \in LocalBBoxes :
        /\ (bbox # <<>> \/ collection_name # "parks") => (query = Some("True") /\ max_records < 0)
        /\ call' = [op |-> "local.find_features", collection_name |-> collection_name,
                    query |-> query, max_records |-> max_records, fmt |-> "geopandas",
                    bbox |-> bbox, bbox_mode |-> "contains", bbox_crs |-> 4326]
        /\ ret' = LocalFindFeatures(collection_name, query, max_records, "geopandas", bbox,
                                    "contains", 4326)
        /\ UNCHANGED <<geodb, tables, rows, txn, collections, sql, issued>>

LocalFindFeatureCall ==
    \E collection_name \in LocalNames, query \in LocalQueries, bbox \in LocalBBoxes :
        /\ (bbox # <<>> \/ collection_name # "parks") => query = Some("True")
        /\ call' = [op |-> "local.find_feature", collection_name |-> collection_name,
                    query |-> query, fmt |-> "geojson", bbox |-> bbox,
                    bbox_mode |-> "contains", bbox_crs |-> 4326]
        /\ ret' = LocalFindFeature(collection_name, query, "geojson", bbox, "contains", 4326)
        /\ UNCHANGED <<geodb, tables, rows, txn, collections, sql, issued>>

InitLocal ==
    /\ \E parks \in SeqsUpTo(LocalFeatures, MaxFeatures) : geodb = [n \in {"parks"} |-> parks]
    /\ tables = {}
    /\ rows = <<>>
    /\ txn = "open"
    /\ collections = <<>>
    /\ sql = None
    /\ issued = <<>>
    /\ call = NoCall
    /\ ret = Ok(None)

NextLocal == LocalFindFeaturesCall \/ LocalFindFeatureCall

SpecLocal == InitLocal /\ [][NextLocal]_vars

(***************************************************************************)
(* The remote backend: its database and its calls.                         *)
(***************************************************************************)
PointGeometry == <<<<"type", PyStrOf("Point")>>,
                   <<"coordinates", PyListOf(<<PyIntOf(1), PyIntOf(2)>>)>>>>
RemoteFeatures ==
    {[properties |-> <<<<"S_NAME", PyStrOf("a")>>, <<"Height", PyIntOf(1)>>, <<"note", PyNone>>>>,
      geometry |-> PointGeometry],
     [properties |-> <<<<"height", PyIntOf(1)>>>>, geometry |-> PointGeometry]}
Schemas ==
    {[properties |-> <<<<"height", "float:8.2">>>>],
     [properties |-> <<<<"label", "str">>, <<"count", "int">>>>],
     [properties |-> <<<<"shape", "blob">>>>]}
RemoteQueries == {None, Some("name = 'a'")}
RemoteBBoxes == {<<>>, <<0, 0, MaxCoord, MaxCoord>>}
RemoteModes == {"contains", "intersects"}
RemoteCrs == {4326, 3857}
RemoteLimits == (0 - 1)..(MaxRecords - 1)

RECURSIVE TotalRows(_, _)
TotalRows(r, T) ==
    IF T = {} THEN 0
    ELSE LET t == CHOOSE x \in T : TRUE IN Len(r[t]) + TotalRows(r, T \ {t})

\* the outcome of a call becomes the state
Becomes(out) ==
    /\ tables' = out.S.tables
    /\ rows' = out.S.rows
    /\ txn' = out.S.txn
    /\ issued' = out.S.issued
    /\ sql' = out.S.sql
    /\ ret' = [exc |-> out.exc, val |-> out.val]
    /\ UNCHANGED <<geodb, collections>>

RemoteFindFeaturesCall ==
    \E collection_name \in TableNames, query \in RemoteQueries, max_records \in RemoteLimits,
       fmt \in Formats, bbox \in RemoteBBoxes, bbox_mode \in RemoteModes, bbox_crs \in RemoteCrs :
        /\ bbox = <<>> => bbox_crs = 4326
        /\ (bbox # <<>> \/ bbox_mode # "contains") => max_records = 0 - 1
        /\ collection_name # "sites" => (query = None /\ bbox = <<>> /\ max_records = 0 - 1)
        /\ call' = [op |-> "remote.find_features", collection_name |-> collection_name,
                    query |-> query, max_records |-> max_records, fmt |-> fmt, bbox |-> bbox,
                    bbox_mode |-> bbox_mode, bbox_crs |-> bbox_crs]
        /\ Becomes(RemoteFindFeatures(Session, collection_name, query, max_records, fmt, bbox,
                                      bbox_mode, bbox_crs))

RemoteFindFeatureCall ==
    \E collection_name \in TableNames, query \in RemoteQueries,
       fmt \in Formats, bbox \in RemoteBBoxes, bbox_mode \in RemoteModes, bbox_crs \in RemoteCrs :
        /\ bbox = <<>> => bbox_crs = 4326
        /\ collection_name # "sites" => (query = None /\ bbox = <<>>)
        /\ call' = [op |-> "remote.find_feature", collection_name |-> collection_name,
                    query |-> query, fmt |-> fmt, bbox |-> bbox,
                    bbox_mode |-> bbox_mode, bbox_crs |-> bbox_crs]
        /\ Becomes(RemoteFindFeature(Session, collection_name, query, fmt, bbox, bbox_mode,
                                     bbox_crs))

NewCollectionCall ==
    \E collection_name \in TableNames, schema \in Schemas :
        /\ call' = [op |-> "remote.new_collection", collection_name |-> collection_name,
                    schema |-> schema]
        /\ Becomes(RemoteNewCollection(Session, collection_name, schema))

DropCollectionCall ==
    \E collection_name \in TableNames :
        /\ call' = [op |-> "remote.drop_collection", collection_name |-> collection_name]
        /\ Becomes(RemoteDropCollection(Session, collection_name))

AddFeatureCall ==
    \E collection_name \in TableNames, feature \in RemoteFeatures :
        /\ TotalRows(rows, TableNames) + 1 <= MaxRows
        /\ call' = [op |-> "remote.add_feature", collection_name |-> collection_name,
                    feature |-> feature]
        /\ Becomes(RemoteAddFeature(Session, collection_name, feature))

AddFeaturesCall ==
    \E collection_name \in TableNames, features \in SeqsUpTo(RemoteFeatures, MaxRows) :
        /\ TotalRows(rows, TableNames) + Len(features) <= MaxRows
        /\ call' = [op |-> "remote.add_features", collection_name |-> collection_name,
                    features |-> features]
        /\ Becomes(RemoteAddFeatures(Session, collection_name, features))

\* the statements of the direct calls of query
DirectStatements ==
    {[kind |-> "TABLES", text |-> _GET_TABLES_SQL]}
    \cup {[kind |-> "EXISTS", table |-> t, text |-> _TABLE_EXISTS_SQL(t)] : t \in TableNames}
    \cup {[kind |-> "DROP", table |-> t, text |-> _DROP_COLLECTION_SQL(t)] : t \in TableNames}

\* a direct call of RemoteGeoPostgreSQLService.query
QueryCall ==
    \E stmt \in DirectStatements :
        /\ call' = [op |-> "remote.query", sql |-> stmt.text]
        /\ Becomes(Query(Session, stmt))

\* RemoteGeoPostgreSQLService.__init__ on a database with the tables T and the rows R
Constructed(T, R) ==
    _get_collections([tables |-> T, rows |-> R, txn |-> "idle", issued |-> <<>>, sql |-> None])

NoRows == [t \in TableNames |-> <<>>]

InitRemote ==
    /\ geodb = <<>>
    /\ \E T \in SUBSET TableNames :
        \E service \in {Constructed(T, NoRows)} :
            /\ tables = service.S.tables
            /\ rows = service.S.rows
            /\ txn = service.S.txn
            /\ issued = service.S.issued
            /\ collections = service.val
    /\ sql = None
    /\ call = NoCall
    /\ ret = Ok(None)

NextRemote ==
    \/ NewCollectionCall
    \/ DropCollectionCall
    \/ AddFeatureCall
    \/ AddFeaturesCall
    \/ QueryCall

SpecRemote == InitRemote /\ [][NextRemote]_vars

(***************************************************************************)
(* The remote backend's searches, on a database that already holds rows.   *)
(***************************************************************************)
StoredRows ==
    {[name |-> n, properties |-> <<<<"S_NAME", PyStrOf(n)>>>>, geometry |-> PointGeometry] :
        n \in {"a", "b"}}

InitFind ==
    /\ geodb = <<>>
    /\ \E T \in SUBSET TableNames, R \in SeqsUpTo(StoredRows, MaxRows) :
        /\ ("sites" \in T \/ R = <<>>)
        /\ \E service \in {Constructed(T, [NoRows EXCEPT !["sites"] = R])} :
            /\ tables = service.S.tables
            /\ rows = service.S.rows
            /\ txn = service.S.txn
            /\ issued = service.S.issued
            /\ collections = service.val
    /\ sql = None
    /\ call = NoCall
    /\ ret = Ok(None)

NextFind ==
    \/ RemoteFindFeaturesCall
    \/ RemoteFindFeatureCall

SpecFind == InitFind /\ [][NextFind]_vars

(***************************************************************************)
(* The claims.                                                             *)
(***************************************************************************)
IsPrefix(a, b) == Len(a) <= Len(b) /\ a = SubSeq(b, 1, Len(a))

\* the closed ring of a bounding box, as the text of its five corners
RingText(bbox) ==
    LET x0 == PyStr(bbox[1])
        y0 == PyStr(bbox[2])
        x1 == PyStr(bbox[3])
        y1 == PyStr(bbox[4])
    IN  PyJoin(",", <<x0 \o " " \o y0, x0 \o " " \o y1, x1 \o " " \o y1, x1 \o " " \o y0,
                      x0 \o " " \o y0>>)

\* the bounding box predicate with the spatial function fn
BBoxPredicate(fn, bbox, srid) ==
    " " \o fn \o "(' " \o (IF srid = None THEN "" ELSE "SRID=" \o PyStr(srid[1]) \o ";")
        \o "POLYGON((" \o RingText(bbox) \o "))::geometry', geometry)"

\* the predicate the combination table asks for, with the spatial function fn
TablePredicate(query, bbox, fn, fmt, srid) ==
    LET rewritten == IF fmt = "geojson" THEN "properties->>" \o query[1] ELSE query[1]
    IN  IF ~Truthy(query) /\ bbox = <<>> THEN "TRUE"
        ELSE IF bbox = <<>> THEN rewritten
        ELSE IF ~Truthy(query) THEN BBoxPredicate(fn, bbox, srid)
        ELSE rewritten \o " and " \o BBoxPredicate(fn, bbox, srid)

\* C1: for a query that is absent, empty or not, a bbox that is absent or a
\* 4-tuple, bbox_mode contains or within and fmt geojson or geopandas,
\* _alter_query returns the predicate of the combination table: TRUE, the
\* rewritten query, the bbox predicate, or the two joined by "and"; the bbox
\* predicate wraps the closed ring, with its SRID tag when srid is given, in
\* ST_Contains or ST_Within, and the other mode yields the same text with
\* the other function name.
C1_CombinationTable ==
    (/\ call.op = "_alter_query"
     /\ call.bbox_mode \in {"contains", "within"}
     /\ call.fmt \in {"geojson", "geopandas"}
     /\ Len(call.bbox) \in {0, 4})
    => /\ ret = Ok(TablePredicate(call.query, call.bbox,
                                  IF call.bbox_mode = "contains" THEN "ST_Contains" ELSE "ST_Within",
                                  call.fmt, call.srid))
       /\ _alter_query(call.query, call.bbox,
                       IF call.bbox_mode = "contains" THEN "within" ELSE "contains",
                       call.fmt, call.srid)
          = Ok(TablePredicate(call.query, call.bbox,
                              IF call.bbox_mode = "contains" THEN "ST_Within" ELSE "ST_Contains",
                              call.fmt, call.srid))

C1_Witness ==
    /\ call.op = "_alter_query"
    /\ Truthy(call.query)
    /\ Len(call.bbox) = 4
    /\ call.bbox_mode = "contains"
    /\ call.fmt = "geojson"
    /\ call.srid # None
    /\ ret.exc = ""
    /\ Contains(ret.val, "ST_Contains")
    /\ Contains(ret.val, " and ")

\* the features of a collection for which the compiled query is truthy, in
\* file order, from feature i on
RECURSIVE MatchingFeatures(_, _, _)
MatchingFeatures(collection, code, i) ==
    IF i > Len(collection) THEN <<>>
    ELSE (IF FeatureResult(code, collection[i]) THEN <<collection[i]>> ELSE <<>>)
         \o MatchingFeatures(collection, code, i + 1)

\* C2: for both backends and every max_records = k >= 0, k = 0 included,
\* find_features returns at most k results, and they are a prefix of the
\* matching features in source order.
C2_AtMostK ==
    /\ (call.op = "local.find_features" /\ ret.exc = "" /\ call.max_records >= 0)
       => /\ Len(ret.val) <= call.max_records
          /\ IsPrefix(ret.val, MatchingFeatures(geodb[call.collection_name],
                                                Compile(call.query).val, 1))
    /\ (call.op = "remote.find_features" /\ ret.exc = "" /\ call.fmt = "geojson"
        /\ call.max_records >= 0)
       => Len(ret.val) <= call.max_records

\* C3: the local find_features with a negative max_records returns every
\* feature of the collection for which the query is truthy, in file order.
C3_NegativeUnbounded ==
    (call.op = "local.find_features" /\ ret.exc = "" /\ call.max_records < 0)
    => ret.val = MatchingFeatures(geodb[call.collection_name], Compile(call.query).val, 1)

\* C4: find_feature returns the first element of find_features called with
\* the same collection, query, fmt, bbox, bbox_mode and bbox_crs and
\* max_records = 1, or None when that call matches nothing, and issues what
\* that call issues.  Stated for the local backend and, for the remote one,
\* for the geojson format.
C4_FindFeatureIsFirst ==
    /\ call.op = "local.find_feature"
       => LET features == LocalFindFeatures(call.collection_name, call.query, 1, call.fmt,
                                            call.bbox, call.bbox_mode, call.bbox_crs)
          IN  IF features.exc # "" THEN ret = features
              ELSE ret = Ok(IF features.val # <<>> THEN Some(features.val[1]) ELSE None)
    /\ (call.op = "remote.find_feature" /\ call.fmt = "geojson")
       => LET features == RemoteFindFeatures(Session, call.collection_name, call.query, 1,
                                             call.fmt, call.bbox, call.bbox_mode, call.bbox_crs)
          IN  /\ issued = features.S.issued
              /\ IF features.exc # "" THEN ret = [exc |-> features.exc, val |-> features.val]
                 ELSE ret = Ok(IF features.val # <<>> THEN Some(features.val[1]) ELSE None)

\* C5: in the query translation a bbox_mode other than contains and within
\* always fails with a ValueError, whether the bbox is present or absent.
C5_UnknownModeFails ==
    (/\ call.op = "_alter_query"
     /\ call.bbox_mode \notin {"contains", "within"}
     /\ Len(call.bbox) \in {0, 4})
    => ret.exc = "ValueError"

\* C6: in the query translation a format other than geojson and geopandas
\* is a ValueError in every case of the combination table; no predicate is
\* returned for an unknown format.
C6_UnknownFormatFails ==
    (/\ call.op = "_alter_query"
     /\ call.fmt \notin {"geojson", "geopandas"}
     /\ Len(call.bbox) \in {0, 4})
    => ret.exc = "ValueError"

\* C7: in the local find_features a failure to evaluate the expression,
\* malformed expression or missing variable, is never fatal: the call on an
\* existing collection does not raise.
C7_EvaluationNeverFatal ==
    (/\ call.op = "local.find_features"
     /\ call.bbox = <<>>
     /\ call.query # None
     /\ call.collection_name \in DOMAIN geodb)
    => ret.exc = ""

Mutating(stmts) == \E i \in 1..Len(stmts) : stmts[i].kind \in {"CREATE", "DROP", "INSERT"}
Issues(stmts, kind, table) ==
    \E i \in 1..Len(stmts) :
        stmts[i].kind = kind /\ "table" \in DOMAIN stmts[i] /\ stmts[i].table = table

\* C8: new_collection(c) issues a CREATE TABLE only when c does not exist and
\* otherwise raises "Collection c exists" with no mutating statement;
\* drop_collection(c) issues a DROP TABLE only when c exists and otherwise
\* raises with no mutating statement; a collection stays until a DROP TABLE
\* of it is issued, so a second new_collection(c) with no drop in between
\* fails.
C8_ExistenceGuards ==
    [][/\ call'.op = "remote.new_collection"
          => /\ call'.collection_name \in tables
                => /\ ret' = Raise("ValueError",
                                   "Collection " \o call'.collection_name \o " exists")
                   /\ ~Mutating(issued')
                   /\ UNCHANGED <<tables, rows>>
             /\ Issues(issued', "CREATE", call'.collection_name)
                => /\ call'.collection_name \notin tables
                   /\ call'.collection_name \in tables'
             /\ ret'.exc = "" => call'.collection_name \in tables' \ tables
       /\ call'.op = "remote.drop_collection"
          => /\ call'.collection_name \notin tables
                => /\ ret'.exc = "ValueError"
                   /\ ~Mutating(issued')
                   /\ UNCHANGED <<tables, rows>>
             /\ Issues(issued', "DROP", call'.collection_name)
                => /\ call'.collection_name \in tables
                   /\ call'.collection_name \notin tables'
       /\ \A c \in tables : c \notin tables' => Issues(issued', "DROP", c)
      ]_vars

C8_Witness ==
    /\ collections = <<>>
    /\ call.op = "remote.new_collection"
    /\ call.collection_name = "sites"
    /\ ret = Raise("ValueError", "Collection sites exists")
    /\ "sites" \in tables
    /\ ~Mutating(issued)

\* C9: add_feature with properties that lack S_NAME fails before any SQL
\* statement is issued: the tables, the rows and the transaction are as
\* they were.
C9_NoNameNoSql ==
    [][(call'.op = "remote.add_feature" /\ ~HasKey(call'.feature.properties, "S_NAME"))
       => /\ ret'.exc = "KeyError"
          /\ issued' = <<>>
          /\ UNCHANGED <<tables, rows, txn>>
      ]_vars

C9_Witness ==
    /\ call.op = "remote.add_feature"
    /\ ~HasKey(call.feature.properties, "S_NAME")
    /\ call.collection_name \in tables
    /\ ret.exc = "KeyError"
    /\ issued = <<>>
    /\ txn = "idle"

\* C10: whatever the number of matching tables, none, one or several, the
\* collections list the constructor caches is the list of the table names
\* the table listing returns.
C10_CollectionsAreTableNames ==
    call.op = "init"
    => collections = [i \in 1..Len(ListTables(tables, 1)) |-> ListTables(tables, 1)[i][1]]

\* the INSERT statements of a call that were executed and committed
CommittedInserts(stmts) ==
    {i \in 1..(Len(stmts) - 1) : stmts[i].kind = "INSERT" /\ stmts[i + 1].kind = "COMMIT"}

\* C11: add_features is all-or-nothing: when the call raises, no INSERT of
\* the call has been executed and committed, and a call commits either an
\* INSERT for every feature of its list or none.
C11_AllOrNothing ==
    call.op = "remote.add_features"
    => /\ ret.exc # "" => CommittedInserts(issued) = {}
       /\ Cardinality(CommittedInserts(issued)) \in {0, Len(call.features)}

====
